---- MODULE Spec2Model ----
(***************************************************************************)
(* Kea-CO2 firmware (src/src/main.cpp): the sensor manager, the light bar  *)
(* renderer, the JSON time-series store with its mutex, and the CSV sink,  *)
(* modelled as FreeRTOS tasks that interleave at their scheduling points.  *)
(*                                                                         *)
(* Numbers.  The C doubles are fixed-point integers here, exactly:         *)
(*   - trendCO2 is kept in units of 1/TrendScale ppm;                      *)
(*   - the doubles that travel through jsonDataQueue (CO2, humidity,       *)
(*     temperature) are kept in units of 1/Unit (Unit = 10 * TrendScale),  *)
(*     so that one tenth of a degree and every halving done by the         *)
(*     smoothing filters within MaxCycles cycles is an integer.            *)
(* Time.  Delays and timeouts are not measured: a timed wait on a held     *)
(* mutex or a full queue may either succeed or time out, and the tasks     *)
(* interleave freely.                                                      *)
(***************************************************************************)
EXTENDS Integers, Sequences, FiniteSets, TLC

(* ------------------------------ bounds --------------------------------- *)
MaxCycles == 4          \* sensor manager cycles explored with the light bar
MaxJsonCycles == 2      \* sensor manager cycles explored with the JSON store
MaxCsvCycles == 3       \* sensor manager cycles explored with the CSV sink
MaxFrames == 6          \* light bar frames explored
MaxRequests == 2        \* HTTP requests explored
MaxStoreCycles == 3     \* sensor manager cycles explored in SpecStore
MaxClears == 1          \* clear requests explored with the CSV sink
MaxRecords == 131       \* samples fed to the store in SpecRecord
MaxSensorCycles == 3    \* sensor manager cycles explored in SpecSensor
MaxModeCycles == 1      \* sensor manager cycles explored in SpecModes
MaxFeedCycles == 4      \* sensor manager cycles explored in SpecFeed
MaxClock == 300         \* latest clock reading an adjustment may set
MaxPolls == 3           \* isDataReady calls counted in one cycle
MaxRoundRecords == 3    \* samples fed to the store in SpecRound
MaxDeliverCycles == 2    \* sensor manager cycles explored in SpecDeliver
MaxStripCycles == 3      \* sensor manager cycles explored in SpecStrip

(* ------------------------- program constants --------------------------- *)
PIXEL_COUNT == 11
CO2_MAX == 2000
CO2_MIN == 400
MAX_BRIGHTNESS == 200
BRIGHTNESS_FACTOR == 6
LIGHTBAR_MAX_POSITION == PIXEL_COUNT * 255
LIGHTBAR_MIN_POSITION == 255
LAST_PIXEL == PIXEL_COUNT - 1
JSON_DATA_POINTS_MAX == 128
CSV_RECORD_INTERVAL_SECONDS == 60
MAX_CSV_SIZE_BYTES == 2000000
FLUSH_THRESHOLD == 128
FLUSH_EVERY_THRESHOLD == 512
CsvHeaderLen == 75      \* strlen of csvHeader
CsvQueueLen == 3        \* xQueueCreate(3, sizeof(csvLine))
JsonQueueLen == 3       \* xQueueCreate(3, sizeof(double))
TEMP_OFFSET_TENTHS == 106   \* TEMP_OFFSET 10.6, in tenths of a degree

\* enum lightBarModes
idleFrame == 0
lightBarScale == 1
flashRed == 2
purplePulse == 3
greenPulse == 4
rgbTest == 5
errorRed == 6
off == 7

(* --------------------------- fixed point ------------------------------- *)
RECURSIVE Pow2(_)
Pow2(n) == IF n = 0 THEN 1 ELSE 2 * Pow2(n - 1)

Max(a, b) == IF a > b THEN a ELSE b

\* every halving done within the explored cycles stays an integer
TrendScale ==
    Pow2(Max(Max(Max(MaxCycles, MaxStoreCycles),
                 Max(MaxJsonCycles, MaxCsvCycles)),
             Max(Max(MaxSensorCycles, MaxModeCycles), MaxFeedCycles)))
Unit == 10 * TrendScale

Abs(x) == IF x < 0 THEN -x ELSE x
\* C integer division and the (int) cast truncate toward zero
TruncDiv(a, b) == IF a >= 0 THEN a \div b ELSE -((-a) \div b)

(* ------------------------------ state ---------------------------------- *)
VARIABLES
    now,                    \* time(): the system clock, seconds
    sm,                     \* sensorManagerTask: its position and locals,
                            \* with dataReady, the data-ready flag of its
                            \* SCD4X, and polls, the isDataReady calls of
                            \* the cycle (counted up to MaxPolls);
                            \* sampled and pushed are history: the cycle
                            \* of the last successful readMeasurement and
                            \* the triples handed to jsonDataQueue
    lb,                     \* lightBarTask: its locals
    lbNotify,               \* lightBar's task notification: [pending, value, mapped]
    lbSuspended,            \* lightBarTask has called vTaskSuspend(NULL)
    frames,                 \* frames rendered so far (bounded by MaxFrames)
    timeCb,                 \* onTimeAvailable: the callback's position
    jsonDataQueue,          \* queue of doubles, sensor manager -> JSON manager
    jsonDataDocument,       \* per channel 0..2, the "data" array
    jsonDocMutex,           \* the task holding the mutex, or "free"
    jf,                     \* jsonFileManagerTask: its position and locals;
                            \* seen is history: the CO2 samples written since
                            \* the last index reset
    jfNotify,               \* jsonFileManager's task notification value
    jfSuspended,            \* jsonFileManagerTask is inside vTaskSuspend(NULL)
    web,                    \* the web server's request handler (async_tcp task)
    aborted,                \* the firmware has aborted (failed assertion)
    charsForCSVFileQueue,   \* queue of CSV lines, sensor manager -> CSV manager
    csv,                    \* csvFileManagerTask: its position and locals;
                            \* clears and dropped are history: the clears done
                            \* and the lines refused at the size cap
    csvNotify,              \* csvFileManager's task notification value
    csvFile                 \* the CSV file on LittleFS

lightVars == <<lb, lbNotify, lbSuspended, frames, timeCb>>
jsonVars == <<jsonDataDocument, jsonDocMutex, jf, jfNotify, jfSuspended>>
csvVars == <<csv, csvNotify, csvFile>>
vars == <<now, sm, lb, lbNotify, lbSuspended, frames, timeCb, jsonDataQueue,
          jsonDataDocument, jsonDocMutex, jf, jfNotify, jfSuspended, web,
          aborted, charsForCSVFileQueue, csv, csvNotify, csvFile>>

(* ------------------------- pure functions ------------------------------ *)
\* a mapping that rounds to the nearest position
mapCO2toPosition_Nearest(inputCO2) ==
    IF inputCO2 > CO2_MIN * TrendScale
    THEN (((inputCO2 - CO2_MIN * TrendScale) * LIGHTBAR_MAX_POSITION
             + ((CO2_MAX - CO2_MIN) * TrendScale) \div 2)
            \div ((CO2_MAX - CO2_MIN) * TrendScale)) % 65536
    ELSE 0

\* mapCO2toPosition: inputCO2 in units of 1/TrendScale ppm; the result is
\* converted to uint16_t
mapCO2toPosition(inputCO2) ==
    IF inputCO2 > CO2_MIN * TrendScale
    THEN (((inputCO2 - CO2_MIN * TrendScale) * LIGHTBAR_MAX_POSITION)
            \div ((CO2_MAX - CO2_MIN) * TrendScale)) % 65536
    ELSE 0

\* A 32-bit notification value is kept as its two 16-bit halves [hi, lo]:
\* the value is hi * 65536 + lo.
Word(hi, lo) == [hi |-> hi % 65536, lo |-> lo % 65536]
high16Bits(w) == w.hi
low8Bits(w) == w.lo % 256

\* updatePosition: the new value of position
updatePosition(position, targetPosition) ==
    IF targetPosition < LIGHTBAR_MIN_POSITION THEN LIGHTBAR_MIN_POSITION
    ELSE IF targetPosition < LIGHTBAR_MAX_POSITION
         THEN IF position > targetPosition THEN position - 1
              ELSE IF position < targetPosition
                   THEN position + ((targetPosition - position) \div 32) + 1
                   ELSE position
         ELSE position

\* updateBrightness: lux = -1 stands for getApproximateLux() failing.
\* Yields [brightness, targetBrightness, changed].
updateBrightness(lux, brightness, targetBrightness) ==
    IF lux < 0
    THEN [brightness |-> brightness, targetBrightness |-> targetBrightness,
          changed |-> FALSE]
    ELSE LET tb == IF lux < BRIGHTNESS_FACTOR * MAX_BRIGHTNESS
                   THEN (lux \div BRIGHTNESS_FACTOR) % 256
                   ELSE MAX_BRIGHTNESS
         IN IF brightness > tb
            THEN [brightness |-> brightness - 1, targetBrightness |-> tb,
                  changed |-> TRUE]
            ELSE IF brightness < tb
                 THEN [brightness |-> brightness + 1, targetBrightness |-> tb,
                       changed |-> TRUE]
                 ELSE [brightness |-> brightness, targetBrightness |-> tb,
                       changed |-> FALSE]

\* handleTargetPositionNotification: yields [targetPosition, lightBarMode]
handleTargetPositionNotification(targetPosition, rawNotification, lightBarMode) ==
    LET rawPosition == high16Bits(rawNotification)
        tp == IF rawPosition # 0 THEN rawPosition ELSE targetPosition
        rawMode == low8Bits(rawNotification)
    IN [targetPosition |-> tp,
        lightBarMode |-> IF rawMode # 0 THEN rawMode
                         ELSE IF tp > LIGHTBAR_MAX_POSITION THEN flashRed
                         ELSE lightBarMode]

\* a notify that writes the value whether or not one is pending
NotifyWithoutOverwrite_Always(slot, value, mapped) ==
    [pending |-> TRUE, value |-> value, mapped |-> mapped]

\* xTaskNotify(task, value, eSetValueWithoutOverwrite): the value is written
\* only when no notification is pending.  mapped is history: the CO2 value
\* (1/TrendScale ppm) a position was computed from; it means something only
\* while the low 8 bits of value are 0.
NotifyWithoutOverwrite(slot, value, mapped) ==
    IF slot.pending THEN slot
    ELSE [pending |-> TRUE, value |-> value, mapped |-> mapped]

\* xTaskNotify(task, value, eSetValueWithOverwrite)
NotifyWithOverwrite(slot, value, mapped) ==
    [pending |-> TRUE, value |-> value, mapped |-> mapped]

\* xTaskNotifyWait(0, 0xFFFF, &rawNotification, 0) == pdTRUE: the low 16
\* bits are cleared on exit
NotifyTaken(slot) ==
    [pending |-> FALSE, value |-> Word(slot.value.hi, 0), mapped |-> slot.mapped]

(* ----------------------- sensorManagerTask ----------------------------- *)
\* vTaskDelay(4700) and the wait for co2.isDataReady(): secs seconds pass
SMDelay(secs, maxCycles) ==
    /\ ~aborted
    /\ sm.pc = "delay"
    /\ sm.cycles < maxCycles
    /\ \E d \in secs : now' = now + d
    /\ sm' = [sm EXCEPT !.pc = "read", !.cycles = @ + 1]
    /\ UNCHANGED <<lightVars, jsonDataQueue, jsonVars, web, aborted,
                   charsForCSVFileQueue, csvVars>>

\* a trend that keeps the whole of its old value
Trend_NoDecay(CO2, prevCO2, trendCO2) ==
    (TrendScale * (CO2 - prevCO2)) \div 2 + trendCO2

\* trendCO2 = 0.5 * (CO2 - prevCO2) + (1 - 0.5) * trendCO2, with CO2 and
\* prevCO2 in ppm and trendCO2 in 1/TrendScale ppm
Trend(CO2, prevCO2, trendCO2) ==
    (TrendScale * (CO2 - prevCO2) + trendCO2) \div 2

\* co2.readMeasurement() == 0: trend, light bar notification, smoothing.
\* co2in in ppm, tin in tenths of a degree, hin in percent.
SMReadOk(co2s, temps, hums) ==
    /\ ~aborted
    /\ sm.pc = "read"
    /\ \E co2in \in co2s, tin \in temps, hin \in hums :
         LET prev == IF sm.prevCO2 = 0 THEN co2in ELSE sm.prevCO2
             trend == Trend(co2in, prev, sm.trendCO2)
             predicted == co2in * TrendScale + trend
             pos == mapCO2toPosition(predicted)
             notification == Word(pos, 0)     \* lightbarPosition << 16
             rawT == (tin - TEMP_OFFSET_TENTHS) * TrendScale
             rawH == hin * Unit
             temperature == sm.temperature + ((rawT - sm.temperature) \div 2)
             humidity == sm.humidity + ((rawH - sm.humidity) \div 2)
         IN /\ lbNotify' = NotifyWithoutOverwrite(lbNotify, notification,
                                                  predicted)
            /\ sm' = [sm EXCEPT !.pc = "jreset",
                                !.CO2 = co2in,
                                !.trendCO2 = trend,
                                !.lightbarPosition = pos,
                                !.predicted = predicted,
                                !.rawTemperature = rawT,
                                !.rawHumidity = rawH,
                                !.sent = ~lbNotify.pending,
                                !.sampled = sm.cycles,
                                !.temperature = temperature,
                                !.humidity = humidity,
                                !.pushed = @ \cup {<<co2in * Unit, humidity,
                                                     temperature>>},
                                !.prevCO2 = co2in]
    /\ UNCHANGED <<now, lb, lbSuspended, frames, timeCb, jsonDataQueue,
                   jsonVars, web, aborted, charsForCSVFileQueue, csvVars>>

\* a failed read that empties jsonDataQueue
SMReadError_Resets ==
    /\ ~aborted
    /\ sm.pc = "read"
    /\ sm' = [sm EXCEPT !.pc = "csv"]
    /\ jsonDataQueue' = <<>>
    /\ UNCHANGED <<now, lightVars, jsonVars, web, aborted,
                   charsForCSVFileQueue, csvVars>>

\* co2.readMeasurement() != 0: the cycle's sample is skipped
SMReadError ==
    /\ ~aborted
    /\ sm.pc = "read"
    /\ sm' = [sm EXCEPT !.pc = "csv"]
    /\ UNCHANGED <<now, lightVars, jsonDataQueue, jsonVars, web, aborted,
                   charsForCSVFileQueue, csvVars>>

(* --------------------------- lightBarTask ------------------------------ *)
\* pulses that end in idleFrame
ModeAfterCase_PulseIdle(mode, position, newPosition, targetPosition) ==
    CASE mode = idleFrame ->
           IF position # targetPosition THEN lightBarScale ELSE idleFrame
      [] mode = lightBarScale ->
           IF newPosition = targetPosition THEN idleFrame ELSE lightBarScale
      [] mode = flashRed ->
           IF targetPosition < LIGHTBAR_MAX_POSITION
           THEN lightBarScale ELSE flashRed
      [] mode \in {purplePulse, greenPulse} -> idleFrame
      [] mode = rgbTest -> lightBarScale
      [] OTHER -> mode

\* lightBarMode when the case of mode has run: position is the position
\* before the case, newPosition the one after
ModeAfterCase(mode, position, newPosition, targetPosition) ==
    CASE mode = idleFrame ->
           IF position # targetPosition THEN lightBarScale ELSE idleFrame
      [] mode = lightBarScale ->
           IF newPosition = targetPosition THEN idleFrame ELSE lightBarScale
      [] mode = flashRed ->
           IF targetPosition < LIGHTBAR_MAX_POSITION
           THEN lightBarScale ELSE flashRed
      [] mode \in {purplePulse, greenPulse, rgbTest} -> lightBarScale
      [] OTHER -> mode

\* One pass of the for loop of lightBarTask: when i = 0 the pass starts with
\* updateBrightness (the head of the while loop), then the notification is
\* drained and the case of the current mode runs.  lux = -1: the light
\* sensor read fails.
LightBarPass(luxes, counted) ==
    /\ ~aborted
    /\ ~lbSuspended
    /\ counted => frames < MaxFrames
    /\ \E lux \in luxes :
         LET ub == IF lb.i = 0
                   THEN updateBrightness(lux, lb.brightness, lb.targetBrightness)
                   ELSE [brightness |-> lb.brightness,
                         targetBrightness |-> lb.targetBrightness,
                         changed |-> FALSE]
             mode0 == IF ub.changed /\ lb.lightBarMode = idleFrame
                      THEN lightBarScale ELSE lb.lightBarMode
             h == IF lbNotify.pending
                  THEN handleTargetPositionNotification(lb.targetPosition,
                                                        lbNotify.value, mode0)
                  ELSE [targetPosition |-> lb.targetPosition,
                        lightBarMode |-> mode0]
             tp == h.targetPosition
             mode == h.lightBarMode
             pos == IF mode = lightBarScale
                    THEN updatePosition(lb.position, tp)
                    ELSE IF mode = flashRed /\ tp < LIGHTBAR_MAX_POSITION
                         THEN LIGHTBAR_MAX_POSITION
                         ELSE lb.position
             mode1 == ModeAfterCase(mode, lb.position, pos, tp)
         IN /\ lb' = [lb EXCEPT !.i = (@ + 1) % 4,
                                !.brightness =
                                    IF mode = flashRed /\ tp < LIGHTBAR_MAX_POSITION
                                    THEN MAX_BRIGHTNESS ELSE ub.brightness,
                                !.targetBrightness = ub.targetBrightness,
                                !.targetPosition = tp,
                                !.position = pos,
                                !.lightBarMode = mode1,
                                !.drained = lbNotify.pending,
                                !.rendered = (mode = lightBarScale),
                                !.ran = mode]
            /\ lbNotify' = IF lbNotify.pending THEN NotifyTaken(lbNotify)
                           ELSE lbNotify
            /\ lbSuspended' = (mode \in {errorRed, off})
    /\ frames' = IF counted THEN frames + 1 ELSE frames
    /\ UNCHANGED <<now, sm, timeCb, jsonDataQueue, jsonVars, web, aborted,
                   charsForCSVFileQueue, csvVars>>

\* a pass of the loop, counted in frames
LightBarFrame(luxes) == LightBarPass(luxes, TRUE)

(* ------------- senders of mode notifications to the light bar ---------- *)
\* onClientConnected: a WiFi client has joined the access point
OnClientConnected ==
    /\ ~aborted
    /\ lbNotify' = NotifyWithOverwrite(lbNotify, Word(0, purplePulse),
                                       lbNotify.mapped)
    /\ UNCHANGED <<now, sm, lb, lbSuspended, frames, timeCb, jsonDataQueue,
                   jsonVars, web, aborted, charsForCSVFileQueue, csvVars>>

\* onTimeAvailable: vTaskResume(lightBar) ends the light bar's
\* vTaskSuspend(NULL), if it is in one
TimeResume ==
    /\ ~aborted
    /\ timeCb = "idle"
    /\ timeCb' = "notify"
    /\ lbSuspended' = FALSE
    /\ UNCHANGED <<now, sm, lb, lbNotify, frames, jsonDataQueue, jsonVars,
                   web, aborted, charsForCSVFileQueue, csvVars>>

\* onTimeAvailable: xTaskNotify(lightBar, greenPulse, eSetValueWithOverwrite)
TimeNotify ==
    /\ ~aborted
    /\ timeCb = "notify"
    /\ timeCb' = "idle"
    /\ lbNotify' = NotifyWithOverwrite(lbNotify, Word(0, greenPulse),
                                       lbNotify.mapped)
    /\ UNCHANGED <<now, sm, lb, lbSuspended, frames, jsonDataQueue, jsonVars,
                   web, aborted, charsForCSVFileQueue, csvVars>>

\* GET /off: xTaskNotify(lightBar, off, eSetValueWithOverwrite)
WebOff(maxRequests) ==
    /\ ~aborted
    /\ web.pc = "idle"
    /\ web.requests < maxRequests
    /\ web' = [web EXCEPT !.requests = @ + 1]
    /\ lbNotify' = NotifyWithOverwrite(lbNotify, Word(0, off), lbNotify.mapped)
    /\ UNCHANGED <<now, sm, lb, lbSuspended, frames, timeCb, jsonDataQueue,
                   jsonVars, aborted, charsForCSVFileQueue, csvVars>>

\* xTaskNotify(lightBar, errorRed, eSetValueWithOverwrite) while the
\* firmware starts: the RTC does not answer, LittleFS does not mount or
\* index.html.gz is missing
StartupError ==
    /\ ~aborted
    /\ sm.pc = "delay"
    /\ sm.cycles = 0
    /\ lbNotify' = NotifyWithOverwrite(lbNotify, Word(0, errorRed),
                                       lbNotify.mapped)
    /\ UNCHANGED <<now, sm, lb, lbSuspended, frames, timeCb, jsonDataQueue,
                   jsonVars, web, aborted, charsForCSVFileQueue, csvVars>>

\* xQueueReset(jsonDataQueue)
SMJsonReset ==
    /\ ~aborted
    /\ sm.pc = "jreset"
    /\ jsonDataQueue' = <<>>
    /\ sm' = [sm EXCEPT !.pc = "jsend1"]
    /\ UNCHANGED <<now, lightVars, jsonVars, web, aborted,
                   charsForCSVFileQueue, csvVars>>

\* xQueueSend(q, &item, 0): the item is dropped when the queue is full
QueueSendNoWait(q, item, len) == IF Len(q) < len THEN Append(q, item) ELSE q

\* the three xQueueSend(jsonDataQueue, ..., 0): CO2, humidity, temperature
SMJsonSend ==
    /\ ~aborted
    /\ sm.pc \in {"jsend1", "jsend2", "jsend3"}
    /\ LET item == CASE sm.pc = "jsend1" -> sm.CO2 * Unit
                     [] sm.pc = "jsend2" -> sm.humidity
                     [] sm.pc = "jsend3" -> sm.temperature
       IN jsonDataQueue' = QueueSendNoWait(jsonDataQueue, item, JsonQueueLen)
    /\ sm' = [sm EXCEPT !.pc = CASE sm.pc = "jsend1" -> "jsend2"
                                 [] sm.pc = "jsend2" -> "jsend3"
                                 [] sm.pc = "jsend3" -> "jresume"]
    /\ UNCHANGED <<now, lightVars, jsonVars, web, aborted,
                   charsForCSVFileQueue, csvVars>>

\* vTaskResume(jsonFileManager): no effect unless the task is suspended
SMJsonResume ==
    /\ ~aborted
    /\ sm.pc = "jresume"
    /\ jfSuspended' = FALSE
    /\ sm' = [sm EXCEPT !.pc = "csv"]
    /\ UNCHANGED <<now, lightVars, jsonDataQueue, jsonDataDocument,
                   jsonDocMutex, jf, jfNotify, web, aborted,
                   charsForCSVFileQueue, csvVars>>

(* ------------------------------ CSV lines ------------------------------ *)
RECURSIVE NumChars(_)
\* characters printf needs for the integer n
NumChars(n) == IF n < 0 THEN 1 + NumChars(-n)
               ELSE IF n < 10 THEN 1 ELSE 1 + NumChars(n \div 10)

\* x / d rounded to the nearest integer, ties to even (printf's %.0f)
RoundHalfEven(x, d) ==
    LET a == Abs(x)
        q == a \div d
        r == a % d
        m == IF 2 * r > d \/ (2 * r = d /\ q % 2 = 1) THEN q + 1 ELSE q
    IN IF x < 0 THEN -m ELSE m

\* bytes of sprintf(buf, "%s,%3.0f,%2.0f,%2.1f", timeStamp, CO2, humidity,
\* temperature) with the 16 characters of "%d/%m/%Y,%H:%M"; co2 in ppm,
\* humidity and temperature in 1/Unit
CsvLineLen(co2, humidity, temperature) ==
    LET tenths == RoundHalfEven(10 * temperature, Unit)
        tchars == (IF tenths < 0 THEN 1 ELSE 0) + NumChars(Abs(tenths) \div 10) + 2
    IN 16 + 1 + Max(3, NumChars(co2))
          + 1 + Max(2, NumChars(RoundHalfEven(humidity, Unit)))
          + 1 + Max(2, tchars)

\* time(&currentEpoch) and the test of the record interval; the line is
\* formatted from the task's CO2, humidity and temperature
SMCsvCheck ==
    /\ ~aborted
    /\ sm.pc = "csv"
    /\ IF sm.prevEpoch + CSV_RECORD_INTERVAL_SECONDS <= now
       THEN sm' = [sm EXCEPT !.pc = "csend",
                             !.prevEpoch = @ + CSV_RECORD_INTERVAL_SECONDS,
                             !.buf = [epoch |-> now, CO2 |-> sm.CO2,
                                      humidity |-> sm.humidity,
                                      temperature |-> sm.temperature,
                                      cycle |-> sm.cycles]]
       ELSE sm' = [sm EXCEPT !.pc = "delay"]
    /\ UNCHANGED <<now, lightVars, jsonDataQueue, jsonVars, web, aborted,
                   charsForCSVFileQueue, csvVars>>

\* a send that finds room in a full queue
SMCsvSend_Unbounded ==
    /\ ~aborted
    /\ sm.pc = "csend"
    /\ charsForCSVFileQueue' = Append(charsForCSVFileQueue, sm.buf)
    /\ sm' = [sm EXCEPT !.pc = "cresume"]
    /\ UNCHANGED <<now, lightVars, jsonDataQueue, jsonVars, web, aborted,
                   csvVars>>

\* xQueueSend(charsForCSVFileQueue, &buf, 1000 ms): when the queue stays
\* full until the timeout the line is dropped
SMCsvSend ==
    /\ ~aborted
    /\ sm.pc = "csend"
    /\ IF Len(charsForCSVFileQueue) < CsvQueueLen
       THEN charsForCSVFileQueue' = Append(charsForCSVFileQueue, sm.buf)
       ELSE UNCHANGED charsForCSVFileQueue
    /\ sm' = [sm EXCEPT !.pc = "cresume"]
    /\ UNCHANGED <<now, lightVars, jsonDataQueue, jsonVars, web, aborted,
                   csvVars>>

\* vTaskResume(csvFileManager): wakes the task when it is blocked in
\* ulTaskNotifyTake(pdTRUE, portMAX_DELAY), otherwise no effect
SMCsvResume ==
    /\ ~aborted
    /\ sm.pc = "cresume"
    /\ csv' = IF csv.pc = "wait" THEN [csv EXCEPT !.woken = TRUE] ELSE csv
    /\ sm' = [sm EXCEPT !.pc = "delay"]
    /\ UNCHANGED <<now, lightVars, jsonDataQueue, jsonVars, web, aborted,
                   charsForCSVFileQueue, csvNotify, csvFile>>

(* ----------------------- the JSON document ----------------------------- *)
\* jsonDataDocument after initializeJson: each graph object's "data" member
\* holds one empty nested array (name, color and y_title never change and
\* are left out)
EmptyDocument == [ch \in 0..2 |-> << <<>> >>]

\* data[index][1] = value; data[index][0] = epoch;  -- ArduinoJson adds
\* null elements up to index when the array is shorter
JsonSetPoint(data, index, epoch, value) ==
    LET padded == IF index < Len(data) THEN data
                  ELSE data \o [k \in 1..(index + 1 - Len(data)) |-> "null"]
    IN [padded EXCEPT ![index + 1] = <<epoch, value>>]

\* the points an array holds
Points(data) == {k \in 1..Len(data) : data[k] # "null" /\ data[k] # <<>>}

\* (int)value for a double in 1/Unit
IntCast(value) == TruncDiv(value, Unit)

\* roundToXDP(decimalPlaces, value):
\*   (float)(((int)(value * (10 * decimalPlaces) + 0.5)) / (10 * decimalPlaces))
\* the division is between ints
roundToXDP(decimalPlaces, value) ==
    TruncDiv(TruncDiv(2 * (10 * decimalPlaces) * value + Unit, 2 * Unit),
             10 * decimalPlaces)

\* index = (index < JSON_DATA_POINTS_MAX) ? (index + 1) : (0)
NextIndex(index) == IF index < JSON_DATA_POINTS_MAX THEN index + 1 ELSE 0

\* a write that stores the point without comparing it with the last stored
RecordPoint_AlwaysAppend(data, index, stored, prevStored, epoch) ==
    [data |-> JsonSetPoint(data, index, epoch, stored),
     index |-> NextIndex(index)]

\* One channel of the write in jsonFileManagerTask: r = [data, index]
RecordPoint(data, index, stored, prevStored, epoch) ==
    IF stored # prevStored
    THEN [data |-> JsonSetPoint(data, index, epoch, stored),
          index |-> NextIndex(index)]
    ELSE [data |-> data, index |-> index]

\* xSemaphoreGive(jsonDocMutex) by task: a give by a task that is not the
\* holder either hands the mutex back all the same or fails the kernel's
\* holder assertion
Give(task) ==
    \/ /\ jsonDocMutex \in {task, "free"}
       /\ jsonDocMutex' = "free"
       /\ UNCHANGED aborted
    \/ /\ jsonDocMutex \notin {task, "free"}
       /\ \/ jsonDocMutex' = "free" /\ UNCHANGED aborted
          \/ aborted' = TRUE /\ UNCHANGED jsonDocMutex

(* ----------------------- jsonFileManagerTask --------------------------- *)
\* initializeJson(): xSemaphoreTake(jsonDocMutex, portMAX_DELAY)
JFInitTake ==
    /\ ~aborted
    /\ jf.pc = "init"
    /\ jsonDocMutex = "free"
    /\ jsonDocMutex' = "json"
    /\ jf' = [jf EXCEPT !.pc = "initclear"]
    /\ UNCHANGED <<now, sm, lightVars, jsonDataQueue, jsonDataDocument,
                   jfNotify, jfSuspended, web, aborted,
                   charsForCSVFileQueue, csvVars>>

\* initializeJson(): clear, rebuild, give; then the first vTaskSuspend(NULL)
JFInitClear ==
    /\ ~aborted
    /\ jf.pc = "initclear"
    /\ jsonDataDocument' = EmptyDocument
    /\ Give("json")
    /\ jf' = [jf EXCEPT !.pc = "suspended"]
    /\ jfSuspended' = TRUE
    /\ UNCHANGED <<now, sm, lightVars, jsonDataQueue, jfNotify, web,
                   charsForCSVFileQueue, csvVars>>

\* resumed: xTaskNotifyWait, the index reset, the test of the queue length
\* and of the clock; back to vTaskSuspend(NULL) when there is nothing to do
JFWake ==
    /\ ~aborted
    /\ jf.pc = "suspended"
    /\ ~jfSuspended
    /\ LET notification == jfNotify.value
           reset == notification > 0
           go == Len(jsonDataQueue) = 3 /\ now > jf.prevEpoch
       IN /\ jf' = [jf EXCEPT
                      !.notification = notification,
                      !.CO2Index = IF reset THEN 0 ELSE @,
                      !.tempIndex = IF reset THEN 0 ELSE @,
                      !.humidityIndex = IF reset THEN 0 ELSE @,
                      !.prevCO2 = IF reset THEN 0 ELSE @,
                      !.prevTemperature = IF reset THEN 0 ELSE @,
                      !.prevHumidity = IF reset THEN 0 ELSE @,
                      !.seen = IF reset THEN <<>> ELSE @,
                      !.currentEpoch = IF Len(jsonDataQueue) = 3 THEN now ELSE @,
                      !.pc = IF go THEN "recv1" ELSE "suspended"]
          /\ jfSuspended' = ~go
    /\ jfNotify' = IF jfNotify.pending
                   THEN [pending |-> FALSE, value |-> 0] ELSE jfNotify
    /\ UNCHANGED <<now, sm, lightVars, jsonDataQueue, jsonDataDocument,
                   jsonDocMutex, web, aborted, charsForCSVFileQueue, csvVars>>

\* xQueueReceive(jsonDataQueue, &x, 10): an empty queue times out and leaves
\* x as it was
JFReceive ==
    /\ ~aborted
    /\ jf.pc \in {"recv1", "recv2", "recv3"}
    /\ LET got == Len(jsonDataQueue) > 0
           item == Head(jsonDataQueue)
       IN /\ jf' = [jf EXCEPT
                      !.CO2 = IF got /\ jf.pc = "recv1" THEN item ELSE @,
                      !.humidity = IF got /\ jf.pc = "recv2" THEN item ELSE @,
                      !.temperature = IF got /\ jf.pc = "recv3" THEN item ELSE @,
                      !.pc = CASE jf.pc = "recv1" -> "recv2"
                               [] jf.pc = "recv2" -> "recv3"
                               [] jf.pc = "recv3" -> "take"]
          /\ jsonDataQueue' = IF got THEN Tail(jsonDataQueue) ELSE jsonDataQueue
    /\ UNCHANGED <<now, sm, lightVars, jsonDataDocument, jsonDocMutex,
                   jfNotify, jfSuspended, web, aborted,
                   charsForCSVFileQueue, csvVars>>

\* xSemaphoreTake(jsonDocMutex, 1000 ms); the result is not looked at
JFTake ==
    /\ ~aborted
    /\ jf.pc = "take"
    /\ IF jsonDocMutex = "free"
       THEN jsonDocMutex' = "json" /\ jf' = [jf EXCEPT !.pc = "write", !.took = TRUE]
       ELSE UNCHANGED jsonDocMutex /\ jf' = [jf EXCEPT !.pc = "write", !.took = FALSE]
    /\ UNCHANGED <<now, sm, lightVars, jsonDataQueue, jsonDataDocument,
                   jfNotify, jfSuspended, web, aborted,
                   charsForCSVFileQueue, csvVars>>

\* the three de-duplicated writes, xSemaphoreGive, the prev* updates, and
\* vTaskSuspend(NULL) at the head of the loop
JFWrite ==
    /\ ~aborted
    /\ jf.pc = "write"
    /\ LET c == RecordPoint(jsonDataDocument[0], jf.CO2Index,
                            IntCast(jf.CO2), IntCast(jf.prevCO2),
                            jf.currentEpoch)
           h == RecordPoint(jsonDataDocument[1], jf.humidityIndex,
                            IntCast(jf.humidity), IntCast(jf.prevHumidity),
                            jf.currentEpoch)
           t == RecordPoint(jsonDataDocument[2], jf.tempIndex,
                            roundToXDP(1, jf.temperature),
                            roundToXDP(1, jf.prevTemperature),
                            jf.currentEpoch)
       IN /\ jsonDataDocument' = [ch \in 0..2 |->
                                    CASE ch = 0 -> c.data
                                      [] ch = 1 -> h.data
                                      [] ch = 2 -> t.data]
          /\ jf' = [jf EXCEPT !.CO2Index = c.index,
                              !.humidityIndex = h.index,
                              !.tempIndex = t.index,
                              !.prevCO2 = jf.CO2,
                              !.prevHumidity = jf.humidity,
                              !.prevTemperature = jf.temperature,
                              !.prevEpoch = jf.currentEpoch,
                              !.seen = Append(@, IntCast(jf.CO2)),
                              !.pc = "suspended"]
    /\ Give("json")
    /\ jfSuspended' = TRUE
    /\ UNCHANGED <<now, sm, lightVars, jsonDataQueue, jfNotify, web,
                   charsForCSVFileQueue, csvVars>>

(* ------------------- web server request handlers ----------------------- *)
\* GET /data.json: xSemaphoreTake(jsonDocMutex, 1); the result is not
\* looked at
WebDataTake(maxRequests) ==
    /\ ~aborted
    /\ web.pc = "idle"
    /\ web.requests < maxRequests
    /\ IF jsonDocMutex = "free"
       THEN jsonDocMutex' = "web"
            /\ web' = [web EXCEPT !.pc = "serialize", !.took = TRUE,
                                  !.serialized = FALSE, !.requests = @ + 1]
       ELSE UNCHANGED jsonDocMutex
            /\ web' = [web EXCEPT !.pc = "serialize", !.took = FALSE,
                                  !.serialized = FALSE, !.requests = @ + 1]
    /\ UNCHANGED <<now, sm, lightVars, jsonDataQueue, jsonDataDocument, jf,
                   jfNotify, jfSuspended, aborted, charsForCSVFileQueue,
                   csvVars>>

\* GET /data.json: serializeJson(jsonDataDocument, *response),
\* xSemaphoreGive, request->send
WebDataSerialize ==
    /\ ~aborted
    /\ web.pc = "serialize"
    /\ web' = [web EXCEPT !.pc = "idle", !.serialized = TRUE]
    /\ Give("web")
    /\ UNCHANGED <<now, sm, lightVars, jsonDataQueue, jsonDataDocument, jf,
                   jfNotify, jfSuspended, charsForCSVFileQueue, csvVars>>

\* GET /yesclear.html: initializeJson(): xSemaphoreTake(portMAX_DELAY)
WebClearTake(maxRequests) ==
    /\ ~aborted
    /\ web.pc = "idle"
    /\ web.requests < maxRequests
    /\ jsonDocMutex = "free"
    /\ jsonDocMutex' = "web"
    /\ web' = [web EXCEPT !.pc = "clear", !.took = TRUE, !.requests = @ + 1]
    /\ UNCHANGED <<now, sm, lightVars, jsonDataQueue, jsonDataDocument, jf,
                   jfNotify, jfSuspended, aborted, charsForCSVFileQueue,
                   csvVars>>

\* GET /yesclear.html: initializeJson(): clear, rebuild, give
WebClearDocument ==
    /\ ~aborted
    /\ web.pc = "clear"
    /\ jsonDataDocument' = EmptyDocument
    /\ Give("web")
    /\ web' = [web EXCEPT !.pc = "notifyJson"]
    /\ UNCHANGED <<now, sm, lightVars, jsonDataQueue, jf, jfNotify,
                   jfSuspended, charsForCSVFileQueue, csvVars>>

\* GET /yesclear.html: xTaskNotify(jsonFileManager, 1, eSetValueWithOverwrite)
WebClearNotifyJson ==
    /\ ~aborted
    /\ web.pc = "notifyJson"
    /\ jfNotify' = [pending |-> TRUE, value |-> 1]
    /\ web' = [web EXCEPT !.pc = "resumeJson"]
    /\ UNCHANGED <<now, sm, lightVars, jsonDataQueue, jsonDataDocument,
                   jsonDocMutex, jf, jfSuspended, aborted,
                   charsForCSVFileQueue, csvVars>>

\* GET /yesclear.html: vTaskResume(jsonFileManager)
WebClearResumeJson ==
    /\ ~aborted
    /\ web.pc = "resumeJson"
    /\ jfSuspended' = FALSE
    /\ web' = [web EXCEPT !.pc = "notifyCsv"]
    /\ UNCHANGED <<now, sm, lightVars, jsonDataQueue, jsonDataDocument,
                   jsonDocMutex, jf, jfNotify, aborted,
                   charsForCSVFileQueue, csvVars>>

\* GET /yesclear.html: xTaskNotify(csvFileManager, 1, eSetValueWithOverwrite)
WebClearNotifyCsv ==
    /\ ~aborted
    /\ web.pc = "notifyCsv"
    /\ csvNotify' = 1
    /\ web' = [web EXCEPT !.pc = "resumeCsv"]
    /\ UNCHANGED <<now, sm, lightVars, jsonDataQueue, jsonVars, aborted,
                   charsForCSVFileQueue, csv, csvFile>>

\* GET /yesclear.html: vTaskResume(csvFileManager)
WebClearResumeCsv ==
    /\ ~aborted
    /\ web.pc = "resumeCsv"
    /\ csv' = IF csv.pc = "wait" THEN [csv EXCEPT !.woken = TRUE] ELSE csv
    /\ web' = [web EXCEPT !.pc = "idle"]
    /\ UNCHANGED <<now, sm, lightVars, jsonDataQueue, jsonVars, aborted,
                   charsForCSVFileQueue, csvNotify, csvFile>>

(* ------------------------- csvFileManagerTask -------------------------- *)
RECURSIVE FileSize(_)
\* bytes written to the file, flushed or still in the file buffer
FileSize(content) ==
    IF content = <<>> THEN 0 ELSE Head(content).len + FileSize(Tail(content))

HeaderRow == [kind |-> "header", len |-> CsvHeaderLen]

\* initializeCsvFile that prints the header whatever the file holds
initializeCsvFile_AlwaysHeader(file, fault) ==
    IF fault = "open" THEN [ok |-> FALSE, file |-> file]
    ELSE LET opened == [exists |-> TRUE,
                        content |-> IF file.exists THEN file.content ELSE <<>>]
         IN IF fault = "print" THEN [ok |-> FALSE, file |-> opened]
            ELSE [ok |-> fault # "reopen",
                  file |-> [opened EXCEPT !.content = Append(@, HeaderRow)]]

\* initializeCsvFile() followed by LittleFS.open(CSVLogFilename, FILE_APPEND).
\* fault names the call that fails, "none" when all succeed.
\* Yields [ok, file].
initializeCsvFile(file, fault) ==
    IF fault = "open" THEN [ok |-> FALSE, file |-> file]
    ELSE LET opened == [exists |-> TRUE,
                        content |-> IF file.exists THEN file.content ELSE <<>>]
             fileHasData == FileSize(opened.content) > 0
         IN IF fileHasData THEN [ok |-> fault # "reopen", file |-> opened]
            ELSE IF fault = "print" THEN [ok |-> FALSE, file |-> opened]
                 ELSE [ok |-> fault # "reopen",
                       file |-> [opened EXCEPT !.content = <<HeaderRow>>]]

\* task start: initializeCsvFile, open, bufferSizeNow = 0,
\* csvDataFilesize = csvDataFile.size(); vTaskDelete(NULL) on failure
CsvStart(faults) ==
    /\ ~aborted
    /\ csv.pc = "start"
    /\ \E fault \in faults :
         LET r == initializeCsvFile(csvFile, fault)
         IN /\ csvFile' = r.file
            /\ csv' = IF r.ok
                      THEN [csv EXCEPT !.pc = "wait",
                                       !.bufferSizeNow = 0,
                                       !.csvDataFilesize = FileSize(r.file.content)]
                      ELSE [csv EXCEPT !.pc = "deleted"]
    /\ UNCHANGED <<now, sm, lightVars, jsonDataQueue, jsonVars, web, aborted,
                   charsForCSVFileQueue, csvNotify>>

\* ulTaskNotifyTake(pdTRUE, portMAX_DELAY) returns -- on a notification, or
\* with 0 when vTaskResume woke the task -- and the delete-file branch
CsvTake(faults) ==
    /\ ~aborted
    /\ csv.pc = "wait"
    /\ csvNotify > 0 \/ csv.woken
    /\ csvNotify' = 0
    /\ IF csvNotify > 0
       THEN \E fault \in faults :
              LET removed == [exists |-> FALSE, content |-> <<>>]
                  r == initializeCsvFile(removed, fault)
              IN /\ csvFile' = r.file
                 /\ csv' = IF r.ok
                           THEN [csv EXCEPT !.pc = "line", !.woken = FALSE,
                                            !.notification = csvNotify,
                                            !.bufferSizeNow = 0,
                                            !.csvDataFilesize =
                                                FileSize(r.file.content),
                                            !.clears = @ + 1]
                           ELSE [csv EXCEPT !.pc = "deleted", !.woken = FALSE,
                                            !.notification = csvNotify]
       ELSE /\ csv' = [csv EXCEPT !.pc = "line", !.woken = FALSE,
                                  !.notification = 0]
            /\ UNCHANGED csvFile
    /\ UNCHANGED <<now, sm, lightVars, jsonDataQueue, jsonVars, web, aborted,
                   charsForCSVFileQueue>>

\* if (csvDataFilesize < MAX_CSV_SIZE_BYTES)
BelowCap(csvDataFilesize) == csvDataFilesize < MAX_CSV_SIZE_BYTES

\* a receive that hands out the newest item of the queue
QueueReceive_Newest(q) ==
    [item |-> q[Len(q)], rest |-> SubSeq(q, 1, Len(q) - 1)]

\* xQueueReceive(q, &item, 0) == pdTRUE on a queue that holds an item:
\* the oldest item leaves the queue
QueueReceive(q) == [item |-> Head(q), rest |-> Tail(q)]

\* xQueueReceive(charsForCSVFileQueue, csvLine, 0), println, the flush;
\* written = FALSE: println returns 0
CsvLine(writes) ==
    /\ ~aborted
    /\ csv.pc = "line"
    /\ IF Len(charsForCSVFileQueue) > 0
       THEN /\ charsForCSVFileQueue' = QueueReceive(charsForCSVFileQueue).rest
            /\ IF BelowCap(csv.csvDataFilesize)
               THEN \E written \in writes :
                      LET line == QueueReceive(charsForCSVFileQueue).item
                          bytesAdded ==
                              IF written
                              THEN (CsvLineLen(line.CO2, line.humidity,
                                               line.temperature) + 2) % 256
                              ELSE 0
                          buffered == csv.bufferSizeNow + bytesAdded
                          flush == buffered > FLUSH_THRESHOLD
                                   \/ csv.csvDataFilesize < FLUSH_EVERY_THRESHOLD
                      IN IF bytesAdded > 0
                         THEN /\ csvFile' = [csvFile EXCEPT !.content =
                                    Append(@, [kind |-> "line",
                                               len |-> bytesAdded,
                                               line |-> line])]
                              /\ csv' = [csv EXCEPT
                                    !.pc = "wait",
                                    !.bufferSizeNow =
                                        IF flush THEN 0 ELSE buffered,
                                    !.csvDataFilesize =
                                        IF flush THEN @ + buffered ELSE @]
                         ELSE /\ csv' = [csv EXCEPT !.pc = "wait"]
                              /\ UNCHANGED csvFile
               ELSE /\ csv' = [csv EXCEPT !.pc = "wait", !.dropped = @ + 1]
                    /\ UNCHANGED csvFile
       ELSE /\ csv' = [csv EXCEPT !.pc = "wait"]
            /\ UNCHANGED <<charsForCSVFileQueue, csvFile>>
    /\ UNCHANGED <<now, sm, lightVars, jsonDataQueue, jsonVars, web, aborted,
                   csvNotify>>

(* ------------------------- initial state ------------------------------- *)
\* jsonDataDocument before the first initializeJson
NullDocument == [ch \in 0..2 |-> <<>>]

NoLine == [epoch |-> 0, CO2 |-> 0, humidity |-> 0, temperature |-> 0,
           cycle |-> 0]

\* The state when setup() has created the tasks.  files: the CSV file that
\* flash storage may hold from earlier runs; co2Garbage, jsonGarbage: the
\* values the uninitialized doubles of sensorManagerTask and
\* jsonFileManagerTask may hold.
InitWith(files, co2Garbage, jsonGarbage) ==
    /\ now = 0
    /\ \E g \in co2Garbage :
         sm = [pc |-> "delay", cycles |-> 0, CO2 |-> g,
               temperature |-> 20 * Unit, humidity |-> 0,
               rawTemperature |-> g, rawHumidity |-> g,
               prevCO2 |-> 0, trendCO2 |-> 0, lightbarPosition |-> 0,
               predicted |-> 0, sent |-> FALSE, sampled |-> 0,
               prevEpoch |-> 0, dataReady |-> FALSE, polls |-> 0,
               pushed |-> {},
               buf |-> NoLine]
    /\ lb = [i |-> 0, brightness |-> 255, targetBrightness |-> MAX_BRIGHTNESS,
             targetPosition |-> LIGHTBAR_MAX_POSITION \div 3, position |-> 0,
             lightBarMode |-> lightBarScale, drained |-> FALSE,
             rendered |-> FALSE, ran |-> idleFrame]
    /\ lbNotify = [pending |-> FALSE, value |-> Word(0, 0), mapped |-> -1]
    /\ lbSuspended = FALSE
    /\ frames = 0
    /\ timeCb = "idle"
    /\ jsonDataQueue = <<>>
    /\ jsonDataDocument = NullDocument
    /\ jsonDocMutex = "free"
    /\ \E g \in jsonGarbage :
         jf = [pc |-> "init", CO2Index |-> 0, tempIndex |-> 0,
               humidityIndex |-> 0, notification |-> 0,
               CO2 |-> g, temperature |-> g, humidity |-> g,
               prevCO2 |-> 0, prevTemperature |-> 0, prevHumidity |-> 0,
               currentEpoch |-> 0, prevEpoch |-> 0, took |-> FALSE,
               seen |-> <<>>]
    /\ jfNotify = [pending |-> FALSE, value |-> 0]
    /\ jfSuspended = FALSE
    /\ web = [pc |-> "idle", took |-> FALSE, serialized |-> FALSE,
              requests |-> 0]
    /\ aborted = FALSE
    /\ charsForCSVFileQueue = <<>>
    /\ csv = [pc |-> "start", notification |-> 0, bufferSizeNow |-> 0,
              csvDataFilesize |-> 0, woken |-> FALSE, clears |-> 0,
              dropped |-> 0]
    /\ csvNotify = 0
    /\ csvFile \in files

NoFile == [exists |-> FALSE, content |-> <<>>]
OldFile(size) == [exists |-> TRUE,
                  content |-> <<[kind |-> "old", len |-> size]>>]

(* --------------- the light bar: sensor manager + renderer -------------- *)
LightCO2 == {450, 2000, 2100}
LightLux == {-1, 1200}

InitLight == InitWith({NoFile}, {0}, {0})

\* With 5-second cycles the CSV record interval does not elapse within
\* MaxCycles cycles, so the sensor manager never reaches its xQueueSend.
NextLight ==
    \/ SMDelay({5}, MaxCycles)
    \/ SMReadOk(LightCO2, {250}, {50})
    \/ SMReadError
    \/ SMJsonReset
    \/ SMJsonSend
    \/ SMJsonResume
    \/ SMCsvCheck
    \/ LightBarFrame(LightLux)

SpecLight == InitLight /\ [][NextLight]_vars

(* ---- the light bar's modes: sensor manager, renderer, mode senders ---- *)
ModeCO2 == {450, 2100}
ModeLux == {1200}

NextModes ==
    \/ SMDelay({5}, MaxModeCycles)
    \/ SMReadOk(ModeCO2, {250}, {50})
    \/ SMJsonReset
    \/ SMJsonSend
    \/ SMJsonResume
    \/ SMCsvCheck
    \/ LightBarFrame(ModeLux)
    \/ OnClientConnected
    \/ TimeResume
    \/ TimeNotify
    \/ WebOff(MaxRequests)
    \/ StartupError

SpecModes == InitLight /\ [][NextModes]_vars

(* ------ the time-series store: sensor manager, JSON manager, web ------- *)
JsonCO2 == {400, 405}
JsonTemps == {250}
JsonHums == {50}
JsonGarbage == {0}

InitJson == InitWith({NoFile}, {0}, JsonGarbage)

NextJson ==
    \/ SMDelay({5}, MaxJsonCycles)
    \/ SMReadOk(JsonCO2, JsonTemps, JsonHums)
    \/ SMReadError
    \/ SMJsonReset
    \/ SMJsonSend
    \/ SMJsonResume
    \/ SMCsvCheck
    \/ JFInitTake
    \/ JFInitClear
    \/ JFWake
    \/ JFReceive
    \/ JFTake
    \/ JFWrite
    \/ WebDataTake(MaxRequests)
    \/ WebDataSerialize
    \/ WebClearTake(MaxRequests)
    \/ WebClearDocument
    \/ WebClearNotifyJson
    \/ WebClearResumeJson
    \/ WebClearNotifyCsv
    \/ WebClearResumeCsv

SpecJson == InitJson /\ [][NextJson]_vars

(* ----------- the store's writer: sensor manager, JSON manager ---------- *)
\* runs in which no HTTP request arrives
NextStore ==
    \/ SMDelay({5}, MaxStoreCycles)
    \/ SMReadOk(JsonCO2, JsonTemps, JsonHums)
    \/ SMJsonReset
    \/ SMJsonSend
    \/ SMJsonResume
    \/ SMCsvCheck
    \/ JFInitTake
    \/ JFInitClear
    \/ JFWake
    \/ JFReceive
    \/ JFTake
    \/ JFWrite

SpecStore == InitJson /\ [][NextStore]_vars

(* ------------- the store filled up: a long run of samples -------------- *)
\* [CO2, humidity, temperature] triples in 1/Unit
RecordSamples == {<<400 * Unit, 50 * Unit, 21 * Unit>>,
                  <<405 * Unit, 51 * Unit, 22 * Unit>>}

\* One cycle's push of sensorManagerTask -- xQueueReset, the three
\* xQueueSend, vTaskResume -- made while jsonFileManagerTask is suspended,
\* five seconds after the previous one, with a triple that differs from the
\* one before.
SMPushTriple(samples, maxRecords) ==
    /\ ~aborted
    /\ jf.pc = "suspended"
    /\ jfSuspended
    /\ sm.cycles < maxRecords
    /\ \E s \in samples :
         /\ s[1] # jf.CO2
         /\ jsonDataQueue' = s
    /\ now' = now + 5
    /\ sm' = [sm EXCEPT !.cycles = @ + 1,
                         !.pushed = @ \cup {jsonDataQueue'}]
    /\ jfSuspended' = FALSE
    /\ UNCHANGED <<lightVars, jsonDataDocument, jsonDocMutex, jf, jfNotify,
                   web, aborted, charsForCSVFileQueue, csvVars>>

NextRecord ==
    \/ SMPushTriple(RecordSamples, MaxRecords)
    \/ JFInitTake
    \/ JFInitClear
    \/ JFWake
    \/ JFReceive
    \/ JFTake
    \/ JFWrite

SpecRecord == InitJson /\ [][NextRecord]_vars

(* ------------- the CSV log: sensor manager, CSV manager, clear --------- *)
CsvFiles == {NoFile, OldFile(MAX_CSV_SIZE_BYTES - 10),
             OldFile(MAX_CSV_SIZE_BYTES)}
CsvFaults == {"none", "open", "print", "reopen"}

InitCsv == InitWith(CsvFiles, {0}, {0})

NextCsv ==
    \/ SMDelay({60}, MaxCsvCycles)
    \/ SMReadOk({450}, {250}, {50})
    \/ SMJsonReset
    \/ SMJsonSend
    \/ SMJsonResume
    \/ SMCsvCheck
    \/ SMCsvSend
    \/ SMCsvResume
    \/ CsvStart(CsvFaults)
    \/ CsvTake(CsvFaults)
    \/ CsvLine(BOOLEAN)
    \/ WebClearTake(MaxClears)
    \/ WebClearDocument
    \/ WebClearNotifyJson
    \/ WebClearResumeJson
    \/ WebClearNotifyCsv
    \/ WebClearResumeCsv

SpecCsv == InitCsv /\ [][NextCsv]_vars

(* ------------------- the sensor manager on its own --------------------- *)
\* readings of the SCD40: CO2 in ppm, temperature in tenths of a degree,
\* relative humidity in percent
SensorCO2 == {0, 400, 800}
SensorTemps == {250, 2000}
SensorHums == {50, 150}

InitSensor == InitWith({NoFile}, {0}, {0})

NextSensor ==
    \/ SMDelay({5}, MaxSensorCycles)
    \/ SMReadOk(SensorCO2, SensorTemps, SensorHums)
    \/ SMReadError
    \/ SMJsonReset
    \/ SMJsonSend
    \/ SMJsonResume
    \/ SMCsvCheck

SpecSensor == InitSensor /\ [][NextSensor]_vars

(* ---------------------- mapCO2toPosition on its own -------------------- *)
\* CO2 values handed to mapCO2toPosition: every 1/TrendScale ppm of these
\* whole ppm values
MapPpm == {-500, 0, 399, 400, 401, 402, 403, 1000, 1500, 1998, 1999, 2000}
MapInputs == {c * TrendScale + f : c \in MapPpm, f \in 0..(TrendScale - 1)}

\* lightbarPosition = mapCO2toPosition(CO2 + trendCO2) for one value of
\* CO2 + trendCO2
MapProbe(inputs) ==
    /\ ~aborted
    /\ \E x \in inputs :
         sm' = [sm EXCEPT !.predicted = x,
                          !.lightbarPosition = mapCO2toPosition(x)]
    /\ UNCHANGED <<now, lightVars, jsonDataQueue, jsonVars, web, aborted,
                   charsForCSVFileQueue, csvVars>>

NextMap == MapProbe(MapInputs)

SpecMap == InitSensor /\ [][NextMap]_vars

\* x, in 1/TrendScale ppm, is in [CO2_MIN, CO2_MAX)
InScale(x) == CO2_MIN * TrendScale <= x /\ x < CO2_MAX * TrendScale

\* C14: mapCO2toPosition is 0 for every CO2 <= CO2_MIN; for CO2 in
\* [CO2_MIN, CO2_MAX) it is below PIXEL_COUNT * 255, equal to
\* floor((CO2 - CO2_MIN) * PIXEL_COUNT * 255 / (CO2_MAX - CO2_MIN)), and
\* non-decreasing.
C14_PositionMonotonic ==
    [][LET x == sm'.predicted
           p == sm'.lightbarPosition
       IN /\ x <= CO2_MIN * TrendScale => p = 0
          /\ InScale(x) =>
                /\ p < PIXEL_COUNT * 255
                /\ p = ((x - CO2_MIN * TrendScale) * PIXEL_COUNT * 255)
                          \div ((CO2_MAX - CO2_MIN) * TrendScale)
          /\ (InScale(sm.predicted) /\ InScale(x) /\ sm.predicted <= x)
                => sm.lightbarPosition <= p]_vars

\* the mapping has been applied just below CO2_MAX
C14_Witness ==
    /\ sm.predicted = CO2_MAX * TrendScale - 1
    /\ sm.lightbarPosition = PIXEL_COUNT * 255 - 1
    /\ sm.pc = "delay"

(* -------------------- claims about the sensor manager ------------------ *)
\* the values readMeasurement left in CO2, rawTemperature and rawHumidity
\* are outside the physical envelope: CO2 = 0, 200 degrees or 150 %
ImplausibleReading(s) ==
    \/ s.CO2 = 0
    \/ s.rawTemperature = (2000 - TEMP_OFFSET_TENTHS) * TrendScale
    \/ s.rawHumidity = 150 * Unit

\* C11: a cycle whose reading is outside the physical envelope leaves
\* prevCO2, trendCO2, temperature and humidity as they were, sends nothing
\* to the light bar and goes on without feeding jsonDataQueue.
C11_PlausibilityFilter ==
    [][(sm.pc = "read" /\ sm'.pc # "read" /\ ImplausibleReading(sm'))
         => /\ sm'.prevCO2 = sm.prevCO2
            /\ sm'.trendCO2 = sm.trendCO2
            /\ sm'.temperature = sm.temperature
            /\ sm'.humidity = sm.humidity
            /\ lbNotify' = lbNotify
            /\ sm'.pc = "csv"]_vars

\* C15: when an accepted CO2 sample equals the one before it, trendCO2
\* becomes half of what it was, and the predicted CO2 (CO2 + trendCO2) is
\* off the sample by that halved trend: over a constant sequence the trend
\* goes to 0 and the prediction to the input.
C15_TrendStability ==
    [][(sm.pc = "read" /\ sm'.pc = "jreset" /\ sm'.CO2 = sm.prevCO2)
         => /\ 2 * sm'.trendCO2 = sm.trendCO2
            /\ sm'.predicted - sm'.CO2 * TrendScale = sm'.trendCO2
            /\ Abs(sm'.trendCO2) <= Abs(sm.trendCO2)]_vars

\* the samples 400, 800, 800: the trend of 200 ppm left by the step has
\* become 100 ppm
C15_Witness ==
    /\ lbNotify.mapped = 400 * TrendScale
    /\ sm.cycles = 3
    /\ sm.pc = "jreset"
    /\ sm.CO2 = 800
    /\ sm.trendCO2 = 100 * TrendScale
    /\ sm.predicted = 900 * TrendScale

(* ------------------------ claims about the CSV log -------------------- *)
\* the delete-file branch of csvFileManagerTask ran to its end
ClearProcessed == csv.pc = "wait" /\ csvNotify > 0 /\ csv'.pc = "line"

\* C9: once the size of the CSV file, counting every byte appended to it
\* whether flushed or not, is at or above MAX_CSV_SIZE_BYTES, no step other
\* than the processing of a clear makes the file larger.
C9_CapEnforcement ==
    [][(FileSize(csvFile.content) >= MAX_CSV_SIZE_BYTES /\ ~ClearProcessed)
          => FileSize(csvFile'.content) <= FileSize(csvFile.content)]_vars

\* C12: the data lines of the CSV file are in the order in which the sensor
\* manager enqueued them (one line per cycle, so by strictly increasing
\* cycle): none is out of order and none is there twice, whatever the
\* interleaving of sensor manager, CSV manager and clear requests.
C12_CsvOrdering ==
    \A i, j \in 1..Len(csvFile.content) :
        (i < j /\ csvFile.content[i].kind = "line"
               /\ csvFile.content[j].kind = "line")
          => csvFile.content[i].line.cycle < csvFile.content[j].line.cycle

\* two lines are in the file behind the header written by a clear
C12_Witness ==
    /\ csv.clears > 0
    /\ Len(csvFile.content) = 3
    /\ csvFile.content[2].kind = "line"
    /\ csvFile.content[3].kind = "line"

HeaderOnlyFirst(content) ==
    \A k \in 1..Len(content) : content[k].kind = "header" => k = 1

JsonAccessing == jf.pc \in {"initclear", "write"}
WebAccessing == web.pc \in {"serialize", "clear"}

\* C1: at most one of the writer, initializeJson and the /data.json
\* serialization is accessing jsonDataDocument, and the accessing task holds
\* jsonDocMutex.
C1_MutualExclusion ==
    /\ ~(JsonAccessing /\ WebAccessing)
    /\ JsonAccessing => jsonDocMutex = "json"
    /\ WebAccessing => jsonDocMutex = "web"

\* C2: when the xSemaphoreTake timed out the operation is skipped -- the
\* writer leaves the document as it is, the handler serializes nothing, and
\* neither gives the mutex it does not hold.
C2_TimeoutSkips ==
    [][/\ (jf.pc = "write" /\ ~jf.took /\ jf' # jf)
            => /\ jsonDataDocument' = jsonDataDocument
               /\ jsonDocMutex' = jsonDocMutex
               /\ ~aborted'
       /\ (web.pc = "serialize" /\ ~web.took /\ web' # web)
            => /\ ~web'.serialized
               /\ jsonDocMutex' = jsonDocMutex
               /\ ~aborted']_vars

\* the point written just before slot index of a channel, as a sequence of
\* at most one element
PreviousPoint(data, index) ==
    LET k == IF index > 0 THEN index ELSE JSON_DATA_POINTS_MAX + 1
    IN IF k \in Points(data) THEN <<data[k][2]>> ELSE <<>>

\* the write of one channel obeys the de-duplication
Dedup(old, new, index, stored, prevStored) ==
    /\ stored = prevStored => new = old
    /\ new # old => <<stored>> # PreviousPoint(old, index)

\* C7: a sample whose rounded value equals the previous sample's appends no
\* point, an appended point never carries the value of the point appended
\* before it, and the CO2 samples 400, 400, 405 leave exactly 2 points.
C7_Dedup ==
    [][/\ (jf.pc = "write" /\ jf' # jf)
            => /\ Dedup(jsonDataDocument[0], jsonDataDocument'[0], jf.CO2Index,
                        IntCast(jf.CO2), IntCast(jf.prevCO2))
               /\ Dedup(jsonDataDocument[1], jsonDataDocument'[1],
                        jf.humidityIndex,
                        IntCast(jf.humidity), IntCast(jf.prevHumidity))
               /\ Dedup(jsonDataDocument[2], jsonDataDocument'[2], jf.tempIndex,
                        roundToXDP(1, jf.temperature),
                        roundToXDP(1, jf.prevTemperature))
       /\ jf'.seen = <<400, 400, 405>>
            => Cardinality(Points(jsonDataDocument'[0])) = 2]_vars

\* C7 witness: the three samples 400, 400, 405 have been written
C7_Witness ==
    /\ jf.seen = <<400, 400, 405>>
    /\ Cardinality(Points(jsonDataDocument[0])) = 2
    /\ jf.pc = "suspended"

\* the write index and the last-value tracker jsonFileManagerTask keeps for
\* channel ch
WriteIndex(ch) == CASE ch = 0 -> jf.CO2Index
                    [] ch = 1 -> jf.humidityIndex
                    [] ch = 2 -> jf.tempIndex
LastValue(ch) == CASE ch = 0 -> jf.prevCO2
                   [] ch = 1 -> jf.prevHumidity
                   [] ch = 2 -> jf.prevTemperature

\* C13: the reset is one step with respect to the writes -- whenever
\* jsonFileManagerTask writes a sample into the document just cleared (no
\* channel holds a point), every channel's write index is 0 and every
\* last-value tracker is the sentinel 0.
C13_AtomicReset ==
    [][(jf.pc = "write" /\ jf' # jf /\ jsonDataDocument = EmptyDocument)
         => \A ch \in 0..2 : WriteIndex(ch) = 0 /\ LastValue(ch) = 0]_vars

\* C8: with capacity N = JSON_DATA_POINTS_MAX, each channel's write index
\* stays in 0..N-1 and wraps modulo N, a channel never holds more than N
\* points, and N + 1 appended points leave exactly N.
C8_Wraparound ==
    /\ jf.CO2Index \in 0..(JSON_DATA_POINTS_MAX - 1)
    /\ jf.humidityIndex \in 0..(JSON_DATA_POINTS_MAX - 1)
    /\ jf.tempIndex \in 0..(JSON_DATA_POINTS_MAX - 1)
    /\ \A ch \in 0..2 :
         Cardinality(Points(jsonDataDocument[ch])) <= JSON_DATA_POINTS_MAX
    /\ Len(jf.seen) = JSON_DATA_POINTS_MAX + 1
         => Cardinality(Points(jsonDataDocument[0])) = JSON_DATA_POINTS_MAX

(* ---------------------- claims about the light bar --------------------- *)
\* a step of sensorManagerTask that sends its position to the light bar
SMSends == sm.pc = "read" /\ sm'.pc = "jreset"

\* a pass of lightBarTask's loop
FrameStep == frames' = frames + 1

\* C3: the position channel is latest-value-wins -- when the sensor manager
\* sends a position while an earlier position notification is still pending,
\* the pending value becomes the newer position.
C3_LatestPositionWins ==
    [][(SMSends /\ lbNotify.pending /\ low8Bits(lbNotify.value) = 0)
         => high16Bits(lbNotify'.value) = sm'.lightbarPosition]_vars

\* C4: when the light bar, in idleFrame or lightBarScale, processes the
\* notification of a cycle whose mapped CO2 value is at or above CO2_MAX,
\* it enters flashRed.
C4_OutOfRangeTrigger ==
    [][(FrameStep /\ lbNotify.pending /\ low8Bits(lbNotify.value) = 0
          /\ lbNotify.mapped >= CO2_MAX * TrendScale
          /\ lb.lightBarMode \in {idleFrame, lightBarScale})
         => lb'.lightBarMode = flashRed]_vars

\* C5: when the light bar, in flashRed, processes the notification of a
\* cycle whose mapped CO2 value is below CO2_MAX (at or below CO2_MIN
\* included), it leaves flashRed for lightBarScale.
C5_OutOfRangeRecovery ==
    [][(FrameStep /\ lbNotify.pending /\ low8Bits(lbNotify.value) = 0
          /\ lbNotify.mapped < CO2_MAX * TrendScale
          /\ lb.lightBarMode = flashRed)
         => lb'.lightBarMode = lightBarScale]_vars

\* C6: one lightBarScale frame with position # targetPosition moves position
\* toward the target by at least 1 and at most |T - P| / 32 + 1 and does not
\* pass the target.
C6_ConvergenceBound ==
    [][(FrameStep /\ lb'.rendered /\ lb.position # lb'.targetPosition)
         => LET P == lb.position
                T == lb'.targetPosition
                Q == lb'.position
            IN /\ Abs(Q - P) >= 1
               /\ Abs(Q - P) <= (Abs(T - P) \div 32) + 1
               /\ IF P < T THEN P < Q /\ Q <= T ELSE T <= Q /\ Q < P]_vars

(* ------------------ claims about the light bar's modes ----------------- *)
\* the notification slot holds a mode notification
ModeNotification(slot) == slot.pending /\ low8Bits(slot.value) # 0

\* C16: a pending mode notification is not replaced by the sensor manager's
\* position; a mode sent while anything is pending becomes the pending
\* notification; and the pass of the light bar that drains a mode
\* notification runs that mode.
C16_ModePrecedence ==
    [][/\ (SMSends /\ ModeNotification(lbNotify)) => lbNotify' = lbNotify
       /\ (lbNotify' # lbNotify /\ ~SMSends /\ ~FrameStep)
             => ModeNotification(lbNotify')
       /\ (FrameStep /\ ModeNotification(lbNotify))
             => lb'.drained /\ lb'.ran = low8Bits(lbNotify.value)]_vars

\* the first position was refused because purplePulse was pending, and the
\* pass that followed drained the slot and ran purplePulse
C16_Witness ==
    /\ sm.cycles = 1
    /\ sm.pc = "jreset"
    /\ ~sm.sent
    /\ ~lbNotify.pending
    /\ lb.drained
    /\ lb.ran = purplePulse

\* C19: once lightBarMode is rgbTest, errorRed or off it keeps that value.
C19_TerminalModes ==
    [][lb.lightBarMode \in {rgbTest, errorRed, off}
         => lb'.lightBarMode = lb.lightBarMode]_vars

\* C20: a pass that runs purplePulse or greenPulse ends in lightBarScale
\* and leaves targetPosition and position as they were, whatever has been
\* notified meanwhile.
C20_PulseDetour ==
    [][(FrameStep /\ lb'.ran \in {purplePulse, greenPulse})
         => /\ lb'.lightBarMode = lightBarScale
            /\ lb'.position = lb.position
            /\ lb'.targetPosition = lb.targetPosition]_vars

\* greenPulse has run and /off was notified before the next pass
C20_Witness ==
    /\ lb.ran = greenPulse
    /\ lb.lightBarMode = lightBarScale
    /\ ModeNotification(lbNotify)
    /\ low8Bits(lbNotify.value) = off

\* C17: every pass of the light bar changes brightness by at most 1 and
\* position by at most |targetPosition - position| / 32 + 1, in every mode
\* and on every change of mode.
C17_NoJumps ==
    [][FrameStep =>
         /\ Abs(lb'.brightness - lb.brightness) <= 1
         /\ Abs(lb'.position - lb.position)
              <= Abs(lb'.targetPosition - lb.position) \div 32 + 1]_vars

(* ------------- the light bar under fair scheduling of its task ---------- *)
LiveCO2 == {450, 1000}
\* getApproximateLux fails: brightness keeps its value, only position moves
LiveLux == {-1}

\* lightBarTask is a ready task between its vTaskDelay calls: the scheduler
\* runs its next pass, so its passes are weakly fair.  The passes are not
\* counted, the sensor manager stops after MaxModeCycles cycles.
NextLive ==
    \/ SMDelay({5}, MaxModeCycles)
    \/ SMReadOk(LiveCO2, {250}, {50})
    \/ SMJsonReset
    \/ SMJsonSend
    \/ SMJsonResume
    \/ SMCsvCheck
    \/ LightBarPass(LiveLux, FALSE)

SpecLive ==
    InitLight /\ [][NextLive]_vars /\ WF_vars(LightBarPass(LiveLux, FALSE))

\* the sensor manager has sent its last position and the slot is empty
NoFurtherNotification ==
    sm.cycles = MaxModeCycles /\ sm.pc = "delay" /\ ~lbNotify.pending

\* C18: in lightBarScale with targetPosition in [0, PIXEL_COUNT * 255) and
\* no further notification, position eventually equals targetPosition and
\* lightBarMode becomes idleFrame.
C18_EventualConvergence ==
    (/\ lb.lightBarMode = lightBarScale
     /\ lb.targetPosition >= 0
     /\ lb.targetPosition < PIXEL_COUNT * 255
     /\ NoFurtherNotification)
      ~> (lb.position = lb.targetPosition /\ lb.lightBarMode = idleFrame)

(* ------- the sensor manager's cycle: samples, clock and CSV lines ------ *)
FeedCO2 == {0, 400, 800}
FeedSecs == {5, 60}
FeedJumps == {120}
FeedGarbage == {0, 40000}

\* SNTP sets the system clock forward by one of jumps seconds
ClockAdjust(jumps, maxClock) ==
    /\ ~aborted
    /\ \E j \in jumps : now + j <= maxClock /\ now' = now + j
    /\ UNCHANGED <<sm, lightVars, jsonDataQueue, jsonVars, web, aborted,
                   charsForCSVFileQueue, csvVars>>

InitFeed == InitWith({NoFile}, FeedGarbage, {0})

\* csvFileManagerTask and jsonFileManagerTask take no step: the queues keep
\* what the sensor manager has put in them.
NextFeed ==
    \/ SMDelay(FeedSecs, MaxFeedCycles)
    \/ SMReadOk(FeedCO2, {250}, {50})
    \/ SMReadError
    \/ SMJsonReset
    \/ SMJsonSend
    \/ SMJsonResume
    \/ SMCsvCheck
    \/ SMCsvSend
    \/ SMCsvResume
    \/ ClockAdjust(FeedJumps, MaxClock)

SpecFeed == InitFeed /\ [][NextFeed]_vars

\* xQueueSend(charsForCSVFileQueue, ...) puts the line in the queue
CsvEnqueues ==
    /\ sm.pc = "csend"
    /\ charsForCSVFileQueue' = Append(charsForCSVFileQueue, sm.buf)

\* C21: the line a cycle enqueues carries the CO2, humidity and temperature
\* of a sample read successfully in that cycle, the triple that cycle pushed
\* to jsonDataQueue.
C21_SameSample ==
    [][CsvEnqueues =>
         /\ sm.sampled = sm.cycles
         /\ jsonDataQueue = <<sm.buf.CO2 * Unit, sm.buf.humidity,
                               sm.buf.temperature>>]_vars

\* C22: two lines enqueued one after the other were formatted at clock
\* readings at least CSV_RECORD_INTERVAL_SECONDS apart.
C22_RecordInterval ==
    \A i \in 1..(Len(charsForCSVFileQueue) - 1) :
        charsForCSVFileQueue[i + 1].epoch - charsForCSVFileQueue[i].epoch
            >= CSV_RECORD_INTERVAL_SECONDS

(* ------------- the sensor manager's wait for the data-ready flag ------- *)
PollCO2 == {400, 800}

\* vTaskDelay(4700 / portTICK_PERIOD_MS) at the top of the loop
SMChill(maxCycles) ==
    /\ ~aborted
    /\ sm.pc = "delay"
    /\ sm.cycles < maxCycles
    /\ now' = now + 5
    /\ sm' = [sm EXCEPT !.pc = "poll", !.cycles = @ + 1, !.polls = 0]
    /\ UNCHANGED <<lightVars, jsonDataQueue, jsonVars, web, aborted,
                   charsForCSVFileQueue, csvVars>>

\* while (co2.isDataReady() == false): one test of the flag.  The read
\* that follows a set flag clears it.
SMPoll(maxPolls) ==
    /\ ~aborted
    /\ sm.pc = "poll"
    /\ sm' = IF sm.dataReady
             THEN [sm EXCEPT !.pc = "read", !.dataReady = FALSE]
             ELSE [sm EXCEPT !.pc = "pollwait",
                             !.polls = IF @ < maxPolls THEN @ + 1 ELSE @]
    /\ UNCHANGED <<now, lightVars, jsonDataQueue, jsonVars, web, aborted,
                   charsForCSVFileQueue, csvVars>>

\* vTaskDelay(30 / portTICK_PERIOD_MS) in the body of the while
SMPollDelay ==
    /\ ~aborted
    /\ sm.pc = "pollwait"
    /\ sm' = [sm EXCEPT !.pc = "poll"]
    /\ UNCHANGED <<now, lightVars, jsonDataQueue, jsonVars, web, aborted,
                   charsForCSVFileQueue, csvVars>>

\* the SCD4X finishes a measurement and sets its data-ready flag
SensorMeasures ==
    /\ ~aborted
    /\ ~sm.dataReady
    /\ sm' = [sm EXCEPT !.dataReady = TRUE]
    /\ UNCHANGED <<now, lightVars, jsonDataQueue, jsonVars, web, aborted,
                   charsForCSVFileQueue, csvVars>>

\* the steps of sensorManagerTask
SMTaskPoll ==
    \/ SMChill(MaxSensorCycles)
    \/ SMPoll(MaxPolls)
    \/ SMPollDelay
    \/ SMReadOk(PollCO2, {250}, {50})
    \/ SMReadError
    \/ SMJsonReset
    \/ SMJsonSend
    \/ SMJsonResume
    \/ SMCsvCheck

NextPoll ==
    \/ SMChill(MaxSensorCycles)
    \/ SMPoll(MaxPolls)
    \/ SMPollDelay
    \/ SensorMeasures
    \/ SMReadOk(PollCO2, {250}, {50})
    \/ SMReadError
    \/ SMJsonReset
    \/ SMJsonSend
    \/ SMJsonResume
    \/ SMCsvCheck

\* sensorManagerTask is scheduled whenever it can take a step; nothing is
\* assumed about the sensor.
SpecPoll == InitSensor /\ [][NextPoll]_vars /\ WF_vars(SMTaskPoll)

\* C23: a cycle that waits for the data-ready flag goes on to its CSV step,
\* whether or not the flag is ever set.
C23_BoundedPolling == (sm.pc = "poll") ~> (sm.pc = "csv")

(* ------- failed reads: sensor manager and jsonFileManagerTask ---------- *)
NextSkip ==
    \/ SMDelay({5}, MaxSensorCycles)
    \/ SMReadOk(JsonCO2, JsonTemps, JsonHums)
    \/ SMReadError
    \/ SMJsonReset
    \/ SMJsonSend
    \/ SMJsonResume
    \/ SMCsvCheck
    \/ JFInitTake
    \/ JFInitClear
    \/ JFWake
    \/ JFReceive
    \/ JFTake
    \/ JFWrite

SpecSkip == InitJson /\ [][NextSkip]_vars

\* a step of sensorManagerTask after the read of a cycle whose
\* readMeasurement has not succeeded
FailedCycleStep ==
    /\ sm' # sm
    /\ sm.pc \in {"read", "csv", "csend", "cresume"}
    /\ sm'.cycles = sm.cycles
    /\ sm'.sampled # sm'.cycles

\* C24: in a cycle whose readMeasurement fails the sensor manager leaves
\* prevCO2, trendCO2, temperature and humidity as they were, notifies the
\* light bar of nothing, leaves jsonDataQueue as it is and does not resume
\* jsonFileManagerTask.
C24_SkippedCycle ==
    [][FailedCycleStep =>
         /\ sm'.prevCO2 = sm.prevCO2
         /\ sm'.trendCO2 = sm.trendCO2
         /\ sm'.temperature = sm.temperature
         /\ sm'.humidity = sm.humidity
         /\ lbNotify' = lbNotify
         /\ jsonDataQueue' = jsonDataQueue
         /\ jfSuspended' = jfSuspended]_vars

\* cycle 2 has failed after cycle 1 succeeded, with cycle 1's triple
\* still queued and jsonFileManagerTask suspended
C24_Witness ==
    /\ sm.cycles = 2
    /\ sm.sampled = 1
    /\ sm.pc = "delay"
    /\ sm.prevCO2 = 400
    /\ Len(jsonDataQueue) = 3
    /\ jfSuspended

\* C25: charsForCSVFileQueue never holds more than CsvQueueLen lines; a send
\* that finds it full gives up, leaves the queue as it is, and the sensor
\* manager goes on to its resume and then to its next cycle.
C25_BoundedCsvQueue ==
    /\ [](Len(charsForCSVFileQueue) <= CsvQueueLen)
    /\ [][(sm.pc = "csend" /\ sm' # sm
             /\ Len(charsForCSVFileQueue) = CsvQueueLen)
            => /\ charsForCSVFileQueue' = charsForCSVFileQueue
               /\ sm'.pc = "cresume"]_vars
    /\ [][(sm.pc = "cresume" /\ sm' # sm) => sm'.pc = "delay"]_vars

\* cycles 1 to 3 have filled the queue and the line of cycle 4 was dropped
C25_Witness ==
    /\ Len(charsForCSVFileQueue) = CsvQueueLen
    /\ sm.cycles = 4
    /\ sm.pc = "delay"
    /\ sm.buf.cycle = 4
    /\ \A i \in 1..CsvQueueLen : charsForCSVFileQueue[i].cycle = i

\* C26: the first successful read leaves prevCO2 equal to its sample, the
\* trend 0 and the mapped value equal to the reading; every later one sets
\* trendCO2 to 0.5 * (CO2 - prevCO2) + 0.5 * trendCO2 with prevCO2 the
\* sample of the previous successful read.
C26_FirstSampleSeeding ==
    [][SMSends =>
         IF sm.sampled = 0
         THEN /\ sm'.prevCO2 = sm'.CO2
              /\ sm'.trendCO2 = 0
              /\ sm'.predicted = sm'.CO2 * TrendScale
         ELSE sm'.trendCO2 = Trend(sm'.CO2, sm.prevCO2, sm.trendCO2)]_vars

(* --------------------------- bounded waits ----------------------------- *)
\* the /yesclear.html handler can be called, jsonFileManagerTask having
\* finished its initializeJson
ClearRequested ==
    /\ ~aborted
    /\ jf.pc \notin {"init", "initclear"}
    /\ web.pc = "idle"
    /\ web.requests < MaxRequests

\* C27: an acquisition made after start-up ends by itself -- the take of
\* the /yesclear.html handler can complete whoever holds jsonDocMutex --
\* and an acquisition that timed out is abandoned: the writer does not go
\* on to write without the mutex.
C27_BoundedWaits ==
    /\ ClearRequested => ENABLED WebClearTake(MaxRequests)
    /\ jf.pc = "write" => jf.took

(* ------------- roundToXDP on the temperature channel ------------------- *)
\* [CO2, humidity, temperature] triples in 1/Unit: 21.0, 21.4, 21.9 and
\* 22.0 degrees
RoundSamples == {<<400 * Unit, 50 * Unit, 210 * TrendScale>>,
                 <<405 * Unit, 50 * Unit, 214 * TrendScale>>,
                 <<410 * Unit, 50 * Unit, 219 * TrendScale>>,
                 <<415 * Unit, 50 * Unit, 220 * TrendScale>>}

NextRound ==
    \/ SMPushTriple(RoundSamples, MaxRoundRecords)
    \/ JFInitTake
    \/ JFInitClear
    \/ JFWake
    \/ JFReceive
    \/ JFTake
    \/ JFWrite

SpecRound == InitJson /\ [][NextRound]_vars

\* value, in 1/Unit, to the nearest tenth, in tenths
NearestTenth(value) == TruncDiv(2 * 10 * value + Unit, 2 * Unit)

\* C28: roundToXDP(1, v) is v to the nearest tenth, and a temperature whose
\* nearest tenth differs from the previous sample's adds a point to the
\* temperature channel.
C28_RoundToTenth ==
    [][(jf.pc = "write" /\ jf' # jf)
         => /\ 10 * roundToXDP(1, jf.temperature)
                 = NearestTenth(jf.temperature)
            /\ NearestTenth(jf.temperature) # NearestTenth(jf.prevTemperature)
                 => jsonDataDocument'[2] # jsonDataDocument[2]]_vars

\* C29: the CO2, humidity and temperature that jsonFileManagerTask holds
\* after its three xQueueReceive are, in this order, the triple one cycle
\* of the sensor manager has pushed.
C29_TripleIntegrity ==
    jf.pc = "take" => <<jf.CO2, jf.humidity, jf.temperature>> \in sm.pushed

\* csvFileManagerTask is blocked in ulTaskNotifyTake and neither a
\* notification nor a vTaskResume for it is pending or on its way
SinkAsleep ==
    /\ csv.pc = "wait"
    /\ ~csv.woken
    /\ csvNotify = 0
    /\ sm.pc # "cresume"
    /\ web.pc = "idle"

\* C30: while csvFileManagerTask sleeps with no wake-up on its way,
\* charsForCSVFileQueue is empty: the wake-up that follows an enqueue takes
\* the line.
C30_NoLostWakeup == SinkAsleep => charsForCSVFileQueue = <<>>


(* ----------- positions at and below the bottom of the scale ------------ *)
DeliverCO2 == {400, 1000}
DeliverLux == {-1}

NextDeliver ==
    \/ SMDelay({5}, MaxDeliverCycles)
    \/ SMReadOk(DeliverCO2, {250}, {50})
    \/ SMJsonReset
    \/ SMJsonSend
    \/ SMJsonResume
    \/ SMCsvCheck
    \/ LightBarFrame(DeliverLux)

SpecDeliver == InitLight /\ [][NextDeliver]_vars

\* C31: when the light bar consumes a position notification of the sensor
\* manager, targetPosition becomes the position the sensor manager computed
\* for that sample, position 0 (CO2 at or below CO2_MIN) included.
C31_DeliveredPosition ==
    [][(FrameStep /\ lbNotify.pending /\ low8Bits(lbNotify.value) = 0)
         => lb'.targetPosition = mapCO2toPosition(lbNotify.mapped)]_vars

(* ------------- the top of the strip: flashRed and the pulses ----------- *)
StripCO2 == {2000, 2100}
StripLux == {-1}

NextStrip ==
    \/ SMDelay({5}, MaxStripCycles)
    \/ SMReadOk(StripCO2, {250}, {50})
    \/ SMJsonReset
    \/ SMJsonSend
    \/ SMJsonResume
    \/ SMCsvCheck
    \/ LightBarFrame(StripLux)
    \/ OnClientConnected

SpecStrip == InitLight /\ [][NextStrip]_vars

\* updateLightBar: the pixel the position falls on, as the uint16_t
\* mixingPixel holds it after the direction is reversed
MixingPixel(position) == (LAST_PIXEL - position \div 255) % 65536

\* C32: position is always within 0..LIGHTBAR_MAX_POSITION, and whenever
\* updateLightBar renders a frame position is strictly below
\* LIGHTBAR_MAX_POSITION, so that the mixing pixel is one of the pixels
\* 0..PIXEL_COUNT - 1 and does not wrap below 0.
C32_OnStrip ==
    /\ lb.position \in 0..LIGHTBAR_MAX_POSITION
    /\ lb.rendered =>
         /\ lb.position < LIGHTBAR_MAX_POSITION
         /\ MixingPixel(lb.position) \in 0..(PIXEL_COUNT - 1)
====
